---- MODULE Spec2Model ----
(***************************************************************************)
(* Model of scripts/update-presets.py: the body registry, the retrying     *)
(* HTTP client, the ephemeris parser and the line-oriented config patcher  *)
(* with its two passes over presets.toml and the final shutil.move.        *)
(*                                                                         *)
(* Text is modelled as a sequence of tokens.  A token is either a word     *)
(* (a run of characters that the script only ever compares as a whole) or  *)
(* a numeral (a run of characters float() accepts, kept as its value).     *)
(***************************************************************************)
EXTENDS Integers, Sequences, FiniteSets, TLC

VARIABLES
    toml,               \* content of the file at toml_path: Seq([text, eol])
    orig,               \* content of toml_path when the run started (history)
    pc,                 \* position of the script
    line_num,           \* index (0-based) of the line the scan loop is at
    current_body,       \* line 199
    current_elements,   \* line 200
    remaining_bodies,   \* line 102
    modified_lines,     \* line 196: line index -> replacement text
    stdout,             \* what print() has written, in order
    attempt,            \* HTTP requests sent so far by the running SESSION.get
    inflight,           \* HTTP requests sent and not yet answered
    getCalls,           \* SESSION.get calls made so far (history)
    tmp,                \* content of the NamedTemporaryFile
    tmpExists,          \* whether tmp.name still names a file
    wpos,               \* index i of the write pass (line 241)
    copied,             \* lines of tmp that shutil.move's copy has written
    response,           \* what the last request of the running SESSION.get met
    parse_arg,          \* argument of a call of parse_ephemeris on its own
    parsed              \* what that call returned or raised

vars == <<toml, orig, pc, line_num, current_body, current_elements,
          remaining_bodies, modified_lines, stdout, attempt, inflight,
          getCalls, tmp, tmpExists, wpos, copied, response, parse_arg,
          parsed>>

\* The variables only a call of parse_ephemeris on its own touches
parseVars == <<parse_arg, parsed>>

-----------------------------------------------------------------------------
(* Tokens *)

W(s) == [k |-> "w", s |-> s, n |-> 0]
N(n) == [k |-> "n", s |-> "", n |-> n]

NL == W("\n")
INDENT == W("  ")
Whitespace == {NL, INDENT}

None == [none |-> TRUE]

-----------------------------------------------------------------------------
(* Bounds of the model *)

MaxLines == 3
MaxTokens == 9

-----------------------------------------------------------------------------
(* Data model and registry (lines 11-100) *)

\* Elements (lines 11-26)
Elements(ec, qr, in_, om, w, ma) ==
    [ec |-> ec, qr |-> qr, in_ |-> in_, om |-> om, w |-> w, ma |-> ma]

\* A raised exception, as the value an operator returns instead of a result
Raise(exc) == [exc |-> exc]
IsRaise(r) == "exc" \in DOMAIN r

\* A body name is the text between the brackets of a header line
Name(s) == <<W(s)>>

\* BODY_MAP (lines 42-100), restricted to three of its entries: a body with
\* no lookup, a planet and a second planet.
BODY_MAP ==
    (Name("the_sun") :> None) @@
    (Name("earth") :> [this |-> "399", parent |-> "10"]) @@
    (Name("mars") :> [this |-> "499", parent |-> "10"])

\* SESSION's Retry (lines 108-113)
RETRY_TOTAL == 3
STATUS_FORCELIST == {429, 500, 502, 503, 504}
ALLOWED_METHODS == {"GET"}
\* urllib3.util.retry.Retry.RETRY_AFTER_STATUS_CODES, honoured because
\* respect_retry_after_header is left at its default
RETRY_AFTER_STATUS_CODES == {413, 429, 503}

\* get_api_params (lines 120-136)
get_api_params_NoneHasLookup(name) ==
    IF name \notin DOMAIN BODY_MAP
    THEN Raise("Exception")
    ELSE LET value == IF BODY_MAP[name] = None
                      THEN [this |-> "10", parent |-> "0"]
                      ELSE BODY_MAP[name]
         IN [COMMAND |-> <<"'", value.this, "'">>,
             CENTER |-> <<"@", value.parent>>]

get_api_params(name) ==
    IF name \notin DOMAIN BODY_MAP
    THEN Raise("Exception")
    ELSE LET value == BODY_MAP[name]
         IN IF value = None
            THEN None
            ELSE [COMMAND |-> <<"'", value.this, "'">>,
                  CENTER |-> <<"@", value.parent>>]

-----------------------------------------------------------------------------
(* String operations of the script, on token sequences *)

\* str.find for a one-token needle: 0-based index of the first occurrence, -1
\* when there is none
Find(text, tok) ==
    IF \E i \in 1..Len(text) : text[i] = tok
    THEN (CHOOSE i \in 1..Len(text) :
              text[i] = tok /\ \A j \in 1..(i - 1) : text[j] # tok) - 1
    ELSE -1

\* text[a:b] for 0 <= a, 0 <= b
Slice(text, a, b) == SubSeq(text, a + 1, b)

RECURSIVE LStrip(_)
LStrip(s) ==
    IF s # <<>> /\ Head(s) \in Whitespace THEN LStrip(Tail(s)) ELSE s

RECURSIVE RStrip(_)
RStrip(s) ==
    IF s # <<>> /\ s[Len(s)] \in Whitespace
    THEN RStrip(SubSeq(s, 1, Len(s) - 1))
    ELSE s

\* str.strip()
Strip(s) == RStrip(LStrip(s))

\* str.splitlines()
RECURSIVE SplitLines(_)
SplitLines(s) ==
    IF s = <<>>
    THEN <<>>
    ELSE LET k == Find(s, NL)
         IN IF k = -1
            THEN <<s>>
            ELSE <<Slice(s, 0, k)>> \o SplitLines(Slice(s, k + 1, Len(s)))

\* " ".join(lines)
RECURSIVE Join(_)
Join(lines) ==
    IF lines = <<>> THEN <<>> ELSE Head(lines) \o Join(Tail(lines))

\* str.split(): the tokens that are not whitespace
Split(s) == SelectSeq(s, LAMBDA t : t \notin Whitespace)

\* str.startswith for a one-token prefix
StartsWith(line, s) == Len(line) >= 1 /\ line[1] = W(s)
EndsWith(line, s) == Len(line) >= 1 /\ line[Len(line)] = W(s)

-----------------------------------------------------------------------------
(* Ephemeris parser (lines 141-167) *)

ELEMENTS_START_TEXT == W("$$SOE")
ELEMENTS_END_TEXT == W("$$EOE")

\* lines 160-167, for a list of floats long enough
MakeElements_MaFromIndex5(arr) ==
    Elements(arr[1].n, arr[2].n, arr[3].n, arr[4].n, arr[5].n, arr[6].n)

MakeElements(arr) ==
    Elements(arr[1].n, arr[2].n, arr[3].n, arr[4].n, arr[5].n, arr[8].n)

parse_ephemeris(ephemeris_text) ==
    LET start_idx == Find(ephemeris_text, ELEMENTS_START_TEXT)
        end_idx == Find(ephemeris_text, ELEMENTS_END_TEXT)
    IN IF start_idx = -1 \/ end_idx = -1
       THEN None
       ELSE LET data_text == Strip(Slice(ephemeris_text, start_idx + 1, end_idx))
                data_lines == SplitLines(data_text)
            IN IF Len(data_lines) < 1
               THEN None
               ELSE LET elements_wsv == Strip(Join(Tail(data_lines)))
                        elements_arr == Split(elements_wsv)
                    IN IF \E i \in 1..Len(elements_arr) : elements_arr[i].k # "n"
                       THEN Raise("ValueError")
                       ELSE IF Len(elements_arr) < 8
                            THEN Raise("IndexError")
                            ELSE MakeElements(elements_arr)

-----------------------------------------------------------------------------
(* The remote API, as seen through SESSION.get (line 176) *)

\* The record the API holds for a target: twelve numbers, base .. base + 11
RecordBase(params) ==
    IF params.COMMAND = <<"'", "399", "'">> THEN 10 ELSE 20

\* A well-formed answer: the record after a timestamp line, three numbers to
\* a line, between the markers
WellFormed(params) ==
    LET b == RecordBase(params)
    IN <<W("*****"), NL, ELEMENTS_START_TEXT, NL,
         N(2460946), W("="), W("A.D."), W("TDB"), NL,
         N(b), N(b + 1), N(b + 2), NL,
         N(b + 3), N(b + 4), N(b + 5), NL,
         N(b + 6), N(b + 7), N(b + 8), NL,
         N(b + 9), N(b + 10), N(b + 11), NL,
         ELEMENTS_END_TEXT, NL, W("*****")>>

\* An answer without markers, one with a token float() rejects, one too short
NoMarkers == <<W("API"), W("ERROR"), NL>>
BadNumber ==
    <<ELEMENTS_START_TEXT, NL, N(2460946), W("="), W("A.D."), NL,
      N(1), N(2), W("n.a."), N(4), N(5), N(6), N(7), N(8), NL,
      ELEMENTS_END_TEXT>>
TooShort ==
    <<ELEMENTS_START_TEXT, NL, N(2460946), W("="), W("A.D."), NL,
      N(1), N(2), N(3), NL, ELEMENTS_END_TEXT>>

TransportError == [kind |-> "error", status |-> 0, retry_after |-> FALSE, text |-> <<>>]
Response(status, retry_after, text) ==
    [kind |-> "response", status |-> status, retry_after |-> retry_after, text |-> text]

\* What one HTTP request for params can come back with
Outcomes(params) ==
    {TransportError}
    \cup {Response(200, FALSE, t) :
             t \in {WellFormed(params), NoMarkers, BadNumber, TooShort}}
    \cup {Response(st, FALSE, NoMarkers) : st \in {404, 413} \cup STATUS_FORCELIST}
    \cup {Response(413, TRUE, NoMarkers)}

-----------------------------------------------------------------------------
(* SESSION.get with its Retry (lines 104-115, 176) *)

\* Retry.is_retry for a response, total being the retries still allowed
IsRetry(method, status, has_retry_after, total) ==
    /\ method \in ALLOWED_METHODS
    /\ \/ status \in STATUS_FORCELIST
       \/ /\ total > 0
          /\ has_retry_after
          /\ status \in RETRY_AFTER_STATUS_CODES

\* Whether the outcome of a request makes urllib3 consult Retry.increment
WantsRetry_Also404(outcome, total) ==
    \/ outcome.kind = "error"
    \/ outcome.status = 404
    \/ IsRetry("GET", outcome.status, outcome.retry_after, total)

WantsRetry(outcome, total) ==
    \/ outcome.kind = "error"
    \/ IsRetry("GET", outcome.status, outcome.retry_after, total)

\* Retries still allowed once n requests have been sent
RetriesLeft(n) == RETRY_TOTAL - (n - 1)

\* Retry.increment(...).is_exhausted(): the new total is below zero
Exhausted(total) == total - 1 < 0

\* Response.raise_for_status (line 179)
RaiseForStatus(status) == 400 <= status /\ status < 600

\* get_elements after SESSION.get returned or raised (lines 177-187)
GetElementsResult(outcome, total) ==
    IF WantsRetry(outcome, total)
    THEN IF outcome.kind = "error" THEN Raise("ConnectionError") ELSE Raise("RetryError")
    ELSE IF RaiseForStatus(outcome.status)
         THEN Raise("HTTPError")
         ELSE LET elements == parse_ephemeris(outcome.text)
              IN IF elements = None THEN Raise("Exception") ELSE elements

-----------------------------------------------------------------------------
(* The config file (lines 201-203, 240-245) *)

LF == W("\n")
CRLF == W("\r\n")

\* Text of header lines, without their line terminator: a no-lookup body,
\* two planets and a name the registry does not have
HeaderPool ==
    {<<W("["), W("the_sun"), W("]")>>,
     <<W("["), W("earth"), W("]")>>,
     <<W("["), W("mars"), W("]")>>,
     <<W("["), W("ufo"), W("]")>>}

\* Text of the other lines
FieldPool ==
    {<<W("apoapsis"), W("="), W("old")>>,
     <<W("eccentricity"), W("="), W("old")>>,
     <<W("periapsis"), W("="), W("old")>>,
     <<W("periapsis"), W("_alt"), W("="), W("old")>>,
     <<W("inclination"), W("="), W("old")>>,
     <<W("arg_pe"), W("="), W("old")>>,
     <<W("long_asc_node"), W("="), W("old")>>,
     <<INDENT, W("mean_anomaly"), W("="), W("old")>>,
     <<W("mass"), W("="), W("old")>>,
     <<W("# orbit")>>,
     <<>>}

\* The sequences of n lines over a pool, each line ending with eol
LinesOver(pool, n, eol) ==
    {[i \in 1..n |-> body[i] \o <<eol>>] : body \in [1..n -> pool]}

\* Files of several sections: any headers and three kinds of other lines, up
\* to MaxLines lines, all ending the same way
SectionFiles ==
    UNION {LinesOver(HeaderPool \cup {<<W("apoapsis"), W("="), W("old")>>,
                                      <<W("mass"), W("="), W("old")>>,
                                      <<W("# orbit")>>}, n, eol) :
              n \in 0..MaxLines, eol \in {LF, CRLF}}

\* Files of one section: the header of earth as first or second line, any
\* other lines around it, up to MaxLines lines, all ending the same way
FieldFiles ==
    UNION {UNION {{before \o <<<<W("["), W("earth"), W("]"), eol>>>> \o after :
                      before \in LinesOver(FieldPool, b, eol),
                      after \in LinesOver(FieldPool, a, eol)} :
                     a \in 0..(MaxLines - 1 - b), eol \in {LF, CRLF}} :
              b \in 0..1}

\* A line as open(path, "r") hands it out: universal newlines
ReadLine(raw) == [i \in 1..Len(raw) |-> IF raw[i] = CRLF THEN NL ELSE raw[i]]

\* A string as a file opened with "w" stores it: "\n" becomes os.linesep
WriteStr(str) == [i \in 1..Len(str) |-> IF str[i] = NL THEN LF ELSE str[i]]

-----------------------------------------------------------------------------
(* The scan loop (lines 202-233) *)

\* line 204
IsHeader(line) == StartsWith(line, "[") /\ EndsWith(line, "]")

\* line 205: line[1:-1]
HeaderBody(line) == SubSeq(line, 2, Len(line) - 1)

\* line 206: set.remove, for a body that is in the set
RemainingAfter_Keep(remaining, body) == remaining

RemainingAfter(remaining, body) == remaining \ {body}

\* line 207
ElementsOnHeader_Keep(elements) == elements

ElementsOnHeader(elements) == None

\* line 211: except Exception
DriverCatches_OnlyHTTP(exc) == exc \in {"HTTPError", "RetryError", "ConnectionError"}

DriverCatches(exc) == TRUE

Assign(key, value) == <<W(key), W("="), N(value)>>

\* lines 218-230
NewLine_SwapNodes(line, el) ==
    LET n1 == IF StartsWith(line, "apoapsis") \/ StartsWith(line, "eccentricity")
              THEN Assign("eccentricity", el.ec) ELSE None
        n2 == IF StartsWith(line, "periapsis")
              THEN Assign("periapsis", el.qr * 1000) ELSE n1
        n3 == IF StartsWith(line, "inclination")
              THEN Assign("inclination", el.in_) ELSE n2
        n4 == IF StartsWith(line, "arg_pe")
              THEN Assign("long_asc_node", el.w) ELSE n3
        n5 == IF StartsWith(line, "long_asc_node")
              THEN Assign("arg_pe", el.om) ELSE n4
    IN IF StartsWith(line, "mean_anomaly")
       THEN Assign("mean_anomaly", el.ma) ELSE n5

NewLine(line, el) ==
    LET n1 == IF StartsWith(line, "apoapsis") \/ StartsWith(line, "eccentricity")
              THEN Assign("eccentricity", el.ec) ELSE None
        n2 == IF StartsWith(line, "periapsis")
              THEN Assign("periapsis", el.qr * 1000) ELSE n1
        n3 == IF StartsWith(line, "inclination")
              THEN Assign("inclination", el.in_) ELSE n2
        n4 == IF StartsWith(line, "arg_pe")
              THEN Assign("arg_pe", el.w) ELSE n3
        n5 == IF StartsWith(line, "long_asc_node")
              THEN Assign("long_asc_node", el.om) ELSE n4
    IN IF StartsWith(line, "mean_anomaly")
       THEN Assign("mean_anomaly", el.ma) ELSE n5

\* lines 216-233: the rest of an iteration, once current_elements is settled
Modified(modified, n, line, elements) ==
    IF elements = None
    THEN modified
    ELSE LET new_line == NewLine(line, elements)
         IN IF new_line = None THEN modified ELSE (n :> new_line) @@ modified

\* lines 242-245
WriteLine_OffByOne(i, line, modified) ==
    IF (i + 1) \in DOMAIN modified
    THEN WriteStr(modified[i + 1] \o <<NL>>)
    ELSE WriteStr(line)

WriteLine(i, line, modified) ==
    IF i \in DOMAIN modified
    THEN WriteStr(modified[i] \o <<NL>>)
    ELSE WriteStr(line)

Out(msg, arg) == [msg |-> msg, arg |-> arg]

\* The line the scan loop is at, stripped (lines 202-203)
CurLine == Strip(ReadLine(toml[line_num + 1]))

-----------------------------------------------------------------------------
(* State machine *)

InitWith(files) ==
    /\ toml \in files
    /\ orig = toml
    /\ pc = "scan"
    /\ line_num = 0
    /\ current_body = None
    /\ current_elements = None
    /\ remaining_bodies = DOMAIN BODY_MAP
    /\ modified_lines = <<>>
    /\ stdout = <<>>
    /\ attempt = 0
    /\ inflight = 0
    /\ getCalls = 0
    /\ tmp = <<>>
    /\ tmpExists = FALSE
    /\ wpos = 0
    /\ copied = 0
    /\ response = None
    /\ parse_arg = <<>>
    /\ parsed = None

Init == InitWith(SectionFiles)

InitFields == InitWith(FieldFiles)

\* lines 204-217 for a header line, up to the call of SESSION.get
ScanHeader ==
    /\ pc = "scan"
    /\ line_num < Len(toml)
    /\ IsHeader(CurLine)
    /\ LET body == HeaderBody(CurLine)
           params == get_api_params(body)
       IN /\ current_body' = body
          /\ IF body \notin remaining_bodies
             THEN \* KeyError out of set.remove: the script ends
                  /\ pc' = "crashed"
                  /\ stdout' = Append(stdout, Out("traceback", "KeyError"))
                  /\ UNCHANGED <<line_num, current_elements, remaining_bodies,
                                 attempt, getCalls>>
             ELSE /\ remaining_bodies' = RemainingAfter(remaining_bodies, body)
                  /\ current_elements' = ElementsOnHeader(current_elements)
                  /\ IF IsRaise(params)
                     THEN /\ IF DriverCatches(params.exc)
                             THEN /\ pc' = "scan"
                                  /\ line_num' = line_num + 1
                                  /\ stdout' = stdout \o <<Out("fetching", body),
                                                           Out("error", body)>>
                             ELSE /\ pc' = "crashed"
                                  /\ line_num' = line_num
                                  /\ stdout' = stdout \o <<Out("fetching", body),
                                                           Out("traceback", params.exc)>>
                          /\ UNCHANGED <<attempt, getCalls>>
                     ELSE IF params = None
                          THEN /\ pc' = "scan"
                               /\ line_num' = line_num + 1
                               /\ stdout' = Append(stdout, Out("fetching", body))
                               /\ UNCHANGED <<attempt, getCalls>>
                          ELSE /\ pc' = "get"
                               /\ line_num' = line_num
                               /\ stdout' = Append(stdout, Out("fetching", body))
                               /\ attempt' = 0
                               /\ getCalls' = getCalls + 1
    /\ UNCHANGED <<toml, orig, modified_lines, inflight, tmp, tmpExists, wpos, copied>>
    /\ UNCHANGED <<response, parseVars>>

\* urllib3 sends one request
Send ==
    /\ pc = "get"
    /\ pc' = "wait"
    /\ attempt' = attempt + 1
    /\ inflight' = inflight + 1
    /\ UNCHANGED <<toml, orig, line_num, current_body, current_elements,
                   remaining_bodies, modified_lines, stdout, getCalls, tmp,
                   tmpExists, wpos, copied>>
    /\ UNCHANGED <<response, parseVars>>

\* The request is answered and Retry allows another one
ReceiveRetry ==
    /\ pc = "wait"
    /\ \E outcome \in Outcomes(get_api_params(current_body)) :
          /\ WantsRetry(outcome, RetriesLeft(attempt))
          /\ ~Exhausted(RetriesLeft(attempt))
          /\ response' = outcome
    /\ pc' = "get"
    /\ inflight' = inflight - 1
    /\ UNCHANGED <<toml, orig, line_num, current_body, current_elements,
                   remaining_bodies, modified_lines, stdout, attempt, getCalls,
                   tmp, tmpExists, wpos, copied>>
    /\ UNCHANGED parseVars

\* The request is answered and SESSION.get returns or raises; get_elements
\* and the iteration of the scan loop run to their end (lines 176-233)
ReceiveFinal ==
    /\ pc = "wait"
    /\ \E outcome \in Outcomes(get_api_params(current_body)) :
          /\ WantsRetry(outcome, RetriesLeft(attempt)) => Exhausted(RetriesLeft(attempt))
          /\ LET r == GetElementsResult(outcome, RetriesLeft(attempt))
             IN IF IsRaise(r)
                THEN IF DriverCatches(r.exc)
                     THEN /\ pc' = "scan"
                          /\ line_num' = line_num + 1
                          /\ stdout' = Append(stdout, Out("error", current_body))
                          /\ modified_lines' =
                                Modified(modified_lines, line_num, CurLine, current_elements)
                          /\ UNCHANGED current_elements
                     ELSE /\ pc' = "crashed"
                          /\ stdout' = Append(stdout, Out("traceback", r.exc))
                          /\ UNCHANGED <<line_num, modified_lines, current_elements>>
                ELSE /\ pc' = "scan"
                     /\ line_num' = line_num + 1
                     /\ current_elements' = r
                     /\ modified_lines' = Modified(modified_lines, line_num, CurLine, r)
                     /\ UNCHANGED stdout
    /\ inflight' = inflight - 1
    /\ attempt' = 0
    /\ response' = None
    /\ UNCHANGED <<toml, orig, current_body, remaining_bodies, getCalls, tmp,
                   tmpExists, wpos, copied>>
    /\ UNCHANGED parseVars

\* lines 216-233 for a line that is no header
ScanLine ==
    /\ pc = "scan"
    /\ line_num < Len(toml)
    /\ ~IsHeader(CurLine)
    /\ modified_lines' = Modified(modified_lines, line_num, CurLine, current_elements)
    /\ line_num' = line_num + 1
    /\ UNCHANGED <<toml, orig, pc, current_body, current_elements, remaining_bodies,
                   stdout, attempt, inflight, getCalls, tmp, tmpExists, wpos, copied>>
    /\ UNCHANGED <<response, parseVars>>

\* End of the file: the report (lines 235-238) and the opening of the
\* temporary file (line 240)
ScanEnd ==
    /\ pc = "scan"
    /\ line_num = Len(toml)
    /\ stdout' = IF remaining_bodies # {}
                 THEN Append(stdout, Out("desync", remaining_bodies))
                 ELSE stdout
    /\ pc' = "write"
    /\ tmp' = <<>>
    /\ tmpExists' = TRUE
    /\ wpos' = 0
    /\ UNCHANGED <<toml, orig, line_num, current_body, current_elements,
                   remaining_bodies, modified_lines, attempt, inflight, getCalls,
                   copied>>
    /\ UNCHANGED <<response, parseVars>>

\* One iteration of the write pass (lines 241-245)
WriteStep ==
    /\ pc = "write"
    /\ wpos < Len(toml)
    /\ tmp' = Append(tmp, WriteLine(wpos, ReadLine(toml[wpos + 1]), modified_lines))
    /\ wpos' = wpos + 1
    /\ UNCHANGED <<toml, orig, pc, line_num, current_body, current_elements,
                   remaining_bodies, modified_lines, stdout, attempt, inflight,
                   getCalls, tmpExists, copied>>
    /\ UNCHANGED <<response, parseVars>>

\* The with block ends: both files are closed
WriteClose ==
    /\ pc = "write"
    /\ wpos = Len(toml)
    /\ pc' = "move"
    /\ UNCHANGED <<toml, orig, line_num, current_body, current_elements,
                   remaining_bodies, modified_lines, stdout, attempt, inflight,
                   getCalls, tmp, tmpExists, wpos, copied>>
    /\ UNCHANGED <<response, parseVars>>

\* shutil.move (line 246) when os.rename succeeds: the temporary directory is
\* on the file system of toml_path
MoveRename ==
    /\ pc = "move"
    /\ toml' = tmp
    /\ tmpExists' = FALSE
    /\ pc' = "done"
    /\ UNCHANGED <<orig, line_num, current_body, current_elements,
                   remaining_bodies, modified_lines, stdout, attempt, inflight,
                   getCalls, tmp, wpos, copied>>
    /\ UNCHANGED <<response, parseVars>>

\* shutil.move when os.rename fails with OSError (another file system): the
\* copy opens toml_path for writing, which empties it
MoveCopyOpen ==
    /\ pc = "move"
    /\ toml' = <<>>
    /\ copied' = 0
    /\ pc' = "copy"
    /\ UNCHANGED <<orig, line_num, current_body, current_elements,
                   remaining_bodies, modified_lines, stdout, attempt, inflight,
                   getCalls, tmp, tmpExists, wpos>>
    /\ UNCHANGED <<response, parseVars>>

\* The copy writes its next piece
MoveCopyStep ==
    /\ pc = "copy"
    /\ copied < Len(tmp)
    /\ toml' = Append(toml, tmp[copied + 1])
    /\ copied' = copied + 1
    /\ UNCHANGED <<orig, pc, line_num, current_body, current_elements,
                   remaining_bodies, modified_lines, stdout, attempt, inflight,
                   getCalls, tmp, tmpExists, wpos>>
    /\ UNCHANGED <<response, parseVars>>

\* The copy is complete: os.unlink of the temporary file
MoveCopyEnd ==
    /\ pc = "copy"
    /\ copied = Len(tmp)
    /\ tmpExists' = FALSE
    /\ pc' = "done"
    /\ UNCHANGED <<toml, orig, line_num, current_body, current_elements,
                   remaining_bodies, modified_lines, stdout, attempt, inflight,
                   getCalls, tmp, wpos, copied>>
    /\ UNCHANGED <<response, parseVars>>

Next ==
    \/ ScanHeader
    \/ Send
    \/ ReceiveRetry
    \/ ReceiveFinal
    \/ ScanLine
    \/ ScanEnd
    \/ WriteStep
    \/ WriteClose
    \/ MoveRename
    \/ MoveCopyOpen
    \/ MoveCopyStep
    \/ MoveCopyEnd

\* Runs on files of several sections
Spec == Init /\ [][Next]_vars

\* Runs on files of one section with every kind of line
SpecFields == InitFields /\ [][Next]_vars

-----------------------------------------------------------------------------
(* A call of parse_ephemeris on its own, on a bounded set of texts *)

\* n numbers base .. base + n - 1, the one at position bad (if any) replaced
\* by a token float() rejects, a line break after the first brk of them
RecordText(n, base, bad, brk) ==
    LET tok(i) == IF i = bad THEN W("n.a.") ELSE N(base + i - 1)
        toks == [i \in 1..n |-> tok(i)]
    IN IF 0 < brk /\ brk < n
       THEN SubSeq(toks, 1, brk) \o <<NL>> \o SubSeq(toks, brk + 1, n)
       ELSE toks

TimestampLine == <<N(2460946), W("="), W("A.D."), NL>>

Blocks ==
    {lead \o ts \o RecordText(n, 30, bad, brk) \o trail :
        lead \in {<<>>, <<NL>>},
        ts \in {<<>>, TimestampLine, <<N(2460946), NL>>},
        n \in 0..MaxTokens,
        bad \in {0, 2, MaxTokens},
        brk \in {0, 3},
        trail \in {<<>>, <<NL>>}}

ParseInputs ==
    {<<W("*****"), NL>> \o s \o b \o e \o <<NL, W("*****")>> :
        s \in {<<>>, <<ELEMENTS_START_TEXT>>},
        e \in {<<>>, <<ELEMENTS_END_TEXT>>},
        b \in Blocks}
    \cup {<<ELEMENTS_END_TEXT>> \o b \o <<ELEMENTS_START_TEXT>> : b \in Blocks}

InitParse ==
    /\ parse_arg \in ParseInputs
    /\ parsed = None
    /\ pc = "parse"
    /\ toml = <<>>
    /\ orig = <<>>
    /\ line_num = 0
    /\ current_body = None
    /\ current_elements = None
    /\ remaining_bodies = DOMAIN BODY_MAP
    /\ modified_lines = <<>>
    /\ stdout = <<>>
    /\ attempt = 0
    /\ inflight = 0
    /\ getCalls = 0
    /\ tmp = <<>>
    /\ tmpExists = FALSE
    /\ wpos = 0
    /\ copied = 0
    /\ response = None

ParseCall ==
    /\ pc = "parse"
    /\ parsed' = parse_ephemeris(parse_arg)
    /\ pc' = "parsed"
    /\ UNCHANGED <<toml, orig, line_num, current_body, current_elements,
                   remaining_bodies, modified_lines, stdout, attempt, inflight,
                   getCalls, tmp, tmpExists, wpos, copied, response, parse_arg>>

NextParse == ParseCall

SpecParse == InitParse /\ [][NextParse]_vars

-----------------------------------------------------------------------------
(* Vocabulary of the properties *)

SixKeys ==
    {"eccentricity", "periapsis", "inclination", "arg_pe", "long_asc_node",
     "mean_anomaly"}

RecognizedPrefixes == SixKeys \cup {"apoapsis"}

\* A line of a file without its terminator, and the terminator
TextOf(raw) == SubSeq(raw, 1, Len(raw) - 1)
EolOf(raw) == raw[Len(raw)]

\* The text of line i (0-based) of the original file, without the white space
\* around it
OrigLine(i) == Strip(TextOf(orig[i + 1]))

\* The key of an assignment: what stands before its "="
KeyOf(text) ==
    IF \E k \in 1..Len(text) : text[k] = W("=")
    THEN SubSeq(text, 1, Find(text, W("=")))
    ELSE text

HasPrefix(text, prefixes) == \E p \in prefixes : StartsWith(text, p)

LineIndices == 0..(Len(orig) - 1)

HeaderIndices == {i \in LineIndices : IsHeader(OrigLine(i))}

\* The header line that opens the section line i lies in (-1: none)
SectionOf(i) ==
    IF \E h \in HeaderIndices : h <= i
    THEN CHOOSE h \in HeaderIndices :
             h <= i /\ \A g \in HeaderIndices : g <= i => g <= h
    ELSE -1

BodyAt(h) == HeaderBody(OrigLine(h))

Printed(msg, arg) ==
    \E k \in 1..Len(stdout) : stdout[k].msg = msg /\ stdout[k].arg = arg

\* The bodies the end-of-scan report names
Reported ==
    UNION {stdout[k].arg : k \in {j \in 1..Len(stdout) : stdout[j].msg = "desync"}}

ScanCompleted == pc \in {"write", "move", "copy", "done"}

\* The values a replacement line for a section of body b can carry: the
\* fields of the record the API holds for b, periapsis in metres
ValuesFor(b) ==
    LET base == RecordBase(get_api_params(b))
    IN {base, (base + 1) * 1000, base + 2, base + 3, base + 4, base + 7}

-----------------------------------------------------------------------------
(* C1 *)

-----------------------------------------------------------------------------
(* C2 *)

\* The state part of C2: no line of a section whose fetch failed has a
\* replacement, and in the file a finished run leaves, those lines have the
\* text they had.
C2_FailedSectionUntouched ==
    \A i \in LineIndices :
        (SectionOf(i) # -1 /\ Printed("error", BodyAt(SectionOf(i))))
            => /\ i \notin DOMAIN modified_lines
               /\ pc = "done" => TextOf(toml[i + 1]) = TextOf(orig[i + 1])

\* The step part of C2: a fetch that ends without elements leaves the driver
\* in the scan loop, at the next line, the failure printed.
C2_FailureStep ==
    (pc = "wait" /\ pc' # "get" /\ current_elements' = None)
        => /\ pc' = "scan"
           /\ line_num' = line_num + 1
           /\ stdout' = Append(stdout, Out("error", current_body))

-----------------------------------------------------------------------------
(* C3 *)

\* C3, as stated: at every point of a run the file at toml_path holds the
\* complete original content or the complete new content.
C3_OriginalOrNew ==
    \/ toml = orig
    \/ pc \in {"move", "copy", "done"} /\ toml = tmp

-----------------------------------------------------------------------------
(* C4 *)

\* C4, as stated: at most one request is in flight, and once the scan is
\* complete the calls issued are as many as the header lines of the file.
C4_OneCallPerHeader ==
    /\ inflight <= 1
    /\ ScanCompleted => getCalls = Cardinality(HeaderIndices)

\* C4, amended: at most one request is in flight, and once the scan is
\* complete the SESSION.get calls issued are as many as the header lines whose
\* body has a lookup in the registry.
C4_OneCallPerLookupHeader ==
    /\ inflight <= 1
    /\ ScanCompleted =>
          getCalls = Cardinality({h \in HeaderIndices : BODY_MAP[BodyAt(h)] # None})

\* A completed scan of a file with a no-lookup header and a header that was
\* fetched
C4_Witness ==
    /\ ScanCompleted
    /\ getCalls = 1
    /\ \E g, h \in HeaderIndices :
          BodyAt(g) = Name("the_sun") /\ BodyAt(h) = Name("earth")

-----------------------------------------------------------------------------
(* C5 *)

\* C5, as stated: a run that has ended, on a file none of whose headers names
\* a registry key, leaves the file byte for byte as it was.
C5_NoMatchRoundTrip ==
    (/\ pc \in {"done", "crashed"}
     /\ \A h \in HeaderIndices : BodyAt(h) \notin DOMAIN BODY_MAP)
        => toml = orig

-----------------------------------------------------------------------------
(* C6 *)

-----------------------------------------------------------------------------
(* C7 *)

\* What the write pass is to produce from the original file and the
\* replacements
Patched(i) ==
    IF i \in DOMAIN modified_lines
    THEN modified_lines[i] \o <<LF>>
    ELSE TextOf(orig[i + 1]) \o <<LF>>

\* C7: once the scan is complete, the bodies reported are exactly the registry
\* keys that no header line of the file names, the report is printed once
\* and only if that set is not empty, and the content written is the one the
\* replacements call for, report or not.
C7_DesyncReport ==
    ScanCompleted =>
        /\ Reported = DOMAIN BODY_MAP \ {BodyAt(h) : h \in HeaderIndices}
        /\ Cardinality({k \in 1..Len(stdout) : stdout[k].msg = "desync"})
              = IF Reported = {} THEN 0 ELSE 1
        /\ pc = "done" =>
              /\ Len(toml) = Len(orig)
              /\ \A i \in LineIndices : toml[i + 1] = Patched(i)

\* A finished run that reported the_sun alone, although the fetch of earth
\* failed, and that rewrote a line of the section of mars
C7_Witness ==
    /\ pc = "done"
    /\ Reported = {Name("the_sun")}
    /\ Printed("error", Name("earth"))
    /\ \E i \in DOMAIN modified_lines : toml[i + 1] = Patched(i)

-----------------------------------------------------------------------------
(* C8 *)

Present(text, tok) == \E i \in 1..Len(text) : text[i] = tok

\* Position of the first occurrence of a token that is present
FirstAt(text, tok) ==
    CHOOSE i \in 1..Len(text) :
        text[i] = tok /\ \A j \in 1..(i - 1) : text[j] # tok

\* The tokens of the text on the lines after the first one
AfterFirstLine(text) ==
    IF Present(text, NL)
    THEN Split(SubSeq(text, FirstAt(text, NL) + 1, Len(text)))
    ELSE <<>>

\* C8: the call returns the empty result when a marker is absent; with $$SOE
\* before $$EOE it takes the text strictly between them, white space around it
\* dropped, discards its first line, and where the rest is at least 8 tokens,
\* all numeric, returns the Elements made of tokens 0, 1, 2, 3, 4 and 7.
C8_ParseContract ==
    pc = "parsed" =>
        /\ (~Present(parse_arg, ELEMENTS_START_TEXT)
               \/ ~Present(parse_arg, ELEMENTS_END_TEXT)) => parsed = None
        /\ (/\ Present(parse_arg, ELEMENTS_START_TEXT)
            /\ Present(parse_arg, ELEMENTS_END_TEXT)
            /\ FirstAt(parse_arg, ELEMENTS_START_TEXT)
                  < FirstAt(parse_arg, ELEMENTS_END_TEXT)) =>
              LET between == SubSeq(parse_arg,
                                    FirstAt(parse_arg, ELEMENTS_START_TEXT) + 1,
                                    FirstAt(parse_arg, ELEMENTS_END_TEXT) - 1)
                  toks == AfterFirstLine(Strip(between))
              IN (Len(toks) >= 8 /\ \A i \in 1..Len(toks) : toks[i].k = "n") =>
                    parsed = [ec |-> toks[1].n, qr |-> toks[2].n, in_ |-> toks[3].n,
                              om |-> toks[4].n, w |-> toks[5].n, ma |-> toks[8].n]

\* A call on a text whose record of 9 numbers follows a blank line and a
\* timestamp line, and which returned Elements
C8_Witness ==
    /\ pc = "parsed"
    /\ parse_arg = <<W("*****"), NL, ELEMENTS_START_TEXT, NL>> \o TimestampLine
                      \o RecordText(9, 30, 0, 3)
                      \o <<NL, ELEMENTS_END_TEXT, NL, W("*****")>>
    /\ parsed = Elements(30, 31, 32, 33, 34, 37)

-----------------------------------------------------------------------------
(* C9 *)

\* C9: every line with a replacement lies after a header line, with no other
\* header in between, whose body has a lookup and whose fetch did not fail,
\* and the value of the replacement is a field of the record fetched for
\* that body.
C9_OnlyWithElements ==
    \A i \in DOMAIN modified_lines :
        LET h == SectionOf(i)
        IN /\ h # -1
           /\ h < i
           /\ BodyAt(h) \in DOMAIN BODY_MAP
           /\ BODY_MAP[BodyAt(h)] # None
           /\ ~Printed("error", BodyAt(h))
           /\ modified_lines[i][3].n \in ValuesFor(BodyAt(h))

\* Both earth and mars were fetched, and a line of the section of mars got
\* the eccentricity of mars
C9_Witness ==
    /\ Name("mars") \notin remaining_bodies
    /\ ~Printed("error", Name("mars"))
    /\ Name("earth") \notin remaining_bodies
    /\ ~Printed("error", Name("earth"))
    /\ \E i \in DOMAIN modified_lines :
          modified_lines[i] = Assign("eccentricity", 20)

-----------------------------------------------------------------------------
(* C10 *)

\* C10, as stated: the key of every replacement line is the key of the line
\* it replaces.
C10_KeyMirrorsOriginal ==
    \A i \in DOMAIN modified_lines :
        KeyOf(modified_lines[i]) = KeyOf(OrigLine(i))

\* C10, amended: every replacement line is '<key> = <value>' where <key> is
\* the recognized prefix the replaced line starts with, except that a line
\* starting with apoapsis is written with the key eccentricity.
C10_KeyIsMatchedPrefix ==
    \A i \in DOMAIN modified_lines :
        \E p \in RecognizedPrefixes :
            /\ StartsWith(OrigLine(i), p)
            /\ Len(modified_lines[i]) = 3
            /\ modified_lines[i][1] = W(IF p = "apoapsis" THEN "eccentricity" ELSE p)
            /\ modified_lines[i][2] = W("=")
            /\ modified_lines[i][3].k = "n"

\* An apoapsis line and a long_asc_node line were both given replacements
C10_Witness ==
    \E i, j \in DOMAIN modified_lines :
        /\ StartsWith(OrigLine(i), "apoapsis")
        /\ KeyOf(modified_lines[i]) = <<W("eccentricity")>>
        /\ StartsWith(OrigLine(j), "long_asc_node")
        /\ KeyOf(modified_lines[j]) = <<W("long_asc_node")>>

====
